---------------------------- MODULE Spec2Model ----------------------------
(***************************************************************************)
(* Model of the rate-table validator: Validator (src/models/validator.py) *)
(* driven by upload_file (src/run.py).                                     *)
(*                                                                         *)
(* A table is a sequence of rows.  A row carries its index label (idx, the *)
(* RangeIndex given by pd.read_excel), the two postal-code cells, the two  *)
(* weight cells and the text of its 'Erros na Linha' cell.  A weight cell  *)
(* is a text cell (a sequence of characters), a float cell (a value in     *)
(* tenths) or NaN.  The text of 'Erros na Linha' is a sequence of tokens:  *)
(* the concatenation of the tokens is the Python string.                   *)
(***************************************************************************)
EXTENDS Integers, Sequences, FiniteSets, TLC

\* ---------------------------------------------------------------- bounds
MaxRows == 3

MaxCep == 3

MaxMixedRows == 2

\* ------------------------------------------------------------ cell values
Str(s) == [t |-> "str", s |-> s, v |-> 0]

Flt(v) == [t |-> "float", s |-> <<>>, v |-> v]

NaN == [t |-> "nan", s |-> <<>>, v |-> 0]

Digits == {"0", "1", "2", "5"}

DigitVal(c) == CASE c = "0" -> 0 [] c = "1" -> 1 [] c = "2" -> 2 [] c = "5" -> 5

\* str.replace(',', '.')
StrReplace(s) == [i \in DOMAIN s |-> IF s[i] = "," THEN "." ELSE s[i]]

\* float(s) accepts, over the alphabet used here, d and d.d
FloatParses(s) ==
    \/ Len(s) = 1 /\ s[1] \in Digits
    \/ Len(s) = 3 /\ s[1] \in Digits /\ s[2] = "." /\ s[3] \in Digits

\* float(s) in tenths
FloatValue(s) ==
    IF Len(s) = 1 THEN 10 * DigitVal(s[1]) ELSE 10 * DigitVal(s[1]) + DigitVal(s[3])

\* ----------------------------------------------------------- column names
columns_name ==
    << "Nome", "Descricao", "CepInicio", "CepFim", "PesoInicio", "PesoFim",
       "Valor", "Prazo", "DiaUtil" >>

columns == << "CepInicio", "CepFim", "PesoInicio", "PesoFim", "Valor", "Prazo" >>

Range(f) == {f[i] : i \in DOMAIN f}

\* ------------------------------------------------------------------ state
VARIABLES
    pc,                  \* position in upload_file / style_dataframe
    real_columns_name,   \* the header of the uploaded table
    excel_data,          \* the table as read by pd.read_excel
    dataframe,           \* self.dataframe (its data, once it is a Styler)
    has_erros,           \* 'Erros na Linha' is a column of self.dataframe
    all_columns,         \* self.all_columns
    cep_interval,        \* the groups the Pass 2 loop has still to visit
    complete_dataframe,  \* the concatenation built by the Pass 2 loop
    todo,                \* the Styler's deferred functions
    ran,                 \* the stages executed in this run
    exc,                 \* the exception that ended the run, "" if none
    marks,               \* the cells and rows the export marked
    run,                 \* 1: first run, 2: run on the first run's output
    first_erros          \* 'Erros na Linha' of the first run's export

vars ==
    << pc, real_columns_name, excel_data, dataframe, has_erros, all_columns,
       cep_interval, complete_dataframe, todo, ran, exc, marks, run, first_erros >>


\* ----------------------------------------------------------------- inputs
T0 == << "0" >>

T15 == << "1", ",", "5" >>

T2 == << "2" >>

Tx == << "x" >>

CepPairs == {p \in (1..MaxCep) \X (1..MaxCep) : p[1] < p[2]}

\* weight cells typed as text with a decimal comma or without
TextWeights == {<<Str(T0), Str(T15)>>, <<Str(T0), Str(T2)>>}

\* weight cells that are numbers already, or text that is no number
MixedWeights ==
    {<<Str(T0), Str(T15)>>, <<Flt(0), Flt(20)>>, <<Str(T0), Str(Tx)>>, <<Str(T0), Flt(20)>>}

MixedCeps == {<<1, 2>>, <<1, 3>>}

MkRow(i, cep, w) ==
    [idx |-> i - 1, CepInicio |-> cep[1], CepFim |-> cep[2],
     PesoInicio |-> w[1], PesoFim |-> w[2], Erros |-> <<>>]

Table(n, c) == [i \in 1..n |-> MkRow(i, c[i][1], c[i][2])]

Rename(h, old, new) == [i \in DOMAIN h |-> IF h[i] = old THEN new ELSE h[i]]

Swap(h, i, j) == [k \in DOMAIN h |-> IF k = i THEN h[j] ELSE IF k = j THEN h[i] ELSE h[k]]

Headers ==
    { columns_name,
      SubSeq(columns_name, 1, Len(columns_name) - 1),
      Append(columns_name, "Extra"),
      Rename(columns_name, "Nome", "Name"),
      Rename(columns_name, "Valor", "Preco"),
      Swap(columns_name, 4, 5) }

\* ------------------------------------------------------------ Validator()
Init ==
    /\ \/ /\ real_columns_name = columns_name
          /\ \E n \in 1..MaxRows : \E c \in [1..n -> CepPairs \X TextWeights] :
                excel_data = Table(n, c)
       \/ /\ real_columns_name \in Headers
          /\ \E n \in 1..MaxMixedRows : \E c \in [1..n -> MixedCeps \X MixedWeights] :
                excel_data = Table(n, c)
    /\ dataframe = excel_data
    /\ has_erros = FALSE
    /\ all_columns = TRUE
    /\ cep_interval = {}
    /\ complete_dataframe = <<>>
    /\ todo = {}
    /\ ran = {}
    /\ exc = ""
    /\ marks = [cells |-> {}, rows |-> {}, headers |-> {}]
    /\ pc = "check_columns_quantity"
    /\ run = 1
    /\ first_erros = [has |-> FALSE, erros |-> <<>>]

\* ------------------------------------------------ _check_columns_quantity
ColumnsQuantityMismatchMissingOnly(real) == Len(columns_name) > Len(real)

ColumnsQuantityMismatch(real) == Len(columns_name) # Len(real)

CheckColumnsQuantity ==
    /\ pc = "check_columns_quantity"
    /\ IF ColumnsQuantityMismatch(real_columns_name)
       THEN /\ exc' = "IndexError"
            /\ pc' = "response"
       ELSE /\ exc' = exc
            /\ pc' = "check_values"
    /\ ran' = ran \cup {"check_columns_quantity"}
    /\ UNCHANGED << real_columns_name, excel_data, dataframe, has_erros, all_columns,
                    cep_interval, complete_dataframe, todo, marks, run, first_erros >>

\* ------------------------------------------------- _check_values: coercion
\* Series.str: only for a column that holds text
StrAccessorOk(df, column) == \E i \in DOMAIN df : df[i][column].t = "str"

\* .str.replace(',', '.'): a cell that is no text becomes NaN
StrReplaceCell(cell) == IF cell.t = "str" THEN Str(StrReplace(cell.s)) ELSE NaN

\* .astype(float) of one cell; the cells that raise are those of AsFloatRaises
AsFloatCell(cell) == IF cell.t = "str" THEN Flt(FloatValue(cell.s)) ELSE cell

AsFloatRaises(cell) == cell.t = "str" /\ ~FloatParses(cell.s)

CoerceRaises(df, column) ==
    \/ ~StrAccessorOk(df, column)
    \/ \E i \in DOMAIN df : AsFloatRaises(StrReplaceCell(df[i][column]))

\* the try block of one column: the column is assigned only if nothing raised
CoerceColumn(df, column) ==
    IF CoerceRaises(df, column)
    THEN df
    ELSE [i \in DOMAIN df |-> [df[i] EXCEPT ![column] = AsFloatCell(StrReplaceCell(@))]]

Coerce(df) == CoerceColumn(CoerceColumn(df, "PesoInicio"), "PesoFim")

\* the local dtype after the loop over columns[2:4]
CoerceOk(df) == ~CoerceRaises(df, "PesoInicio") /\ ~CoerceRaises(df, "PesoFim")

CheckValues ==
    /\ pc = "check_values"
    /\ IF \A i \in DOMAIN columns : columns[i] \in Range(real_columns_name)
       THEN /\ dataframe' = Coerce(dataframe)
            /\ all_columns' = all_columns
            /\ pc' = IF CoerceOk(dataframe) THEN "check_data_types" ELSE "check_numbers_errors"
       ELSE /\ all_columns' = FALSE
            /\ dataframe' = dataframe
            /\ pc' = "check_columns_name"
    /\ ran' = ran \cup {"check_values"}
    /\ UNCHANGED << real_columns_name, excel_data, has_erros, cep_interval,
                    complete_dataframe, todo, exc, marks, run, first_erros >>

\* ------------------------------------------------------ _check_data_types
DtypeOf(name, df) ==
    CASE name \in {"CepInicio", "CepFim", "Valor", "Prazo"} -> "int64"
      [] name \in {"PesoInicio", "PesoFim"} ->
            IF \A i \in DOMAIN df : df[i][name].t # "str" THEN "float64" ELSE "object"
      [] OTHER -> "object"

data_types ==
    << "object", "object", "int64", "int64", "float64", "float64", "int64", "int64", "object" >>

\* key is the 0-based position of the code; the table has as many columns as
\* data_types has entries once _check_columns_quantity has passed
WrongDtype(real, df) ==
    \E k \in DOMAIN real \cap DOMAIN data_types :
        /\ data_types[k] # DtypeOf(real[k], df)
        /\ k - 1 > 1
        /\ k - 1 < 6

CheckDataTypes ==
    /\ pc = "check_data_types"
    /\ IF WrongDtype(real_columns_name, dataframe)
       THEN /\ exc' = "TypeError"
            /\ pc' = "response"
       ELSE /\ exc' = exc
            /\ pc' = "pass1"
    /\ ran' = ran \cup {"check_data_types"}
    /\ UNCHANGED << real_columns_name, excel_data, dataframe, has_erros, all_columns,
                    cep_interval, complete_dataframe, todo, marks, run, first_erros >>


\* -------------------------------------------------- _find_conflited_ranges
\* the comparisons of pandas: of int64 for the postal codes, of float64 (false
\* against NaN) for the weights
Greater(peso, x, y) ==
    IF peso THEN x.t = "float" /\ y.t = "float" /\ x.v > y.v ELSE x > y

Col1(peso, row) == IF peso THEN row.PesoInicio ELSE row.CepInicio

Col2(peso, row) == IF peso THEN row.PesoFim ELSE row.CepFim

ConflictTestInclusive(peso, column2, row) ==
    /\ ~Greater(peso, Col1(peso, row), column2)
    /\ ~Greater(peso, column2, Col2(peso, row))

\* (column2 > dataframe[col1]) & (dataframe[col2] > column2)
ConflictTest(peso, column2, row) ==
    /\ Greater(peso, column2, Col1(peso, row))
    /\ Greater(peso, Col2(peso, row), column2)

\* dataframe.loc[...].index: the index labels of the rows selected, in table order
Conflicts(peso, df, column2) ==
    LET sel == SelectSeq(df, LAMBDA row : ConflictTest(peso, column2, row))
    IN [i \in DOMAIN sel |-> sel[i].idx]

RECURSIVE Join(_)
\* ', '.join(map(str, conflicts))
Join(conflicts) ==
    IF Len(conflicts) = 0 THEN <<>>
    ELSE IF Len(conflicts) = 1 THEN << ToString(conflicts[1]) >>
    ELSE << ToString(conflicts[1]), ", " >> \o Join(Tail(conflicts))

WriteMessageOverwrite(old, message, conflicts) == << message >> \o Join(conflicts)

\* dataframe.iloc[key, 9] + message + ', '.join(map(str, conflicts))
WriteMessage(old, message, conflicts) == old \o << message >> \o Join(conflicts)

RECURSIVE ConflictLoop(_, _, _, _)
\* for key, value in enumerate(dataframe[[col1, col2]].values)
ConflictLoop(peso, message, df, key) ==
    IF key > Len(df) THEN df
    ELSE LET conflicts == Conflicts(peso, df, Col2(peso, df[key]))
         IN ConflictLoop(peso, message,
                IF Len(conflicts) > 0
                THEN [df EXCEPT ![key].Erros = WriteMessage(@, message, conflicts)]
                ELSE df,
                key + 1)

find_conflited_ranges(peso, hasColumn, df) ==
    ConflictLoop(peso,
                 IF peso THEN " + PESO: " ELSE "CEP: ",
                 IF hasColumn THEN df ELSE [i \in DOMAIN df |-> [df[i] EXCEPT !.Erros = <<>>]],
                 1)

Pass1 ==
    /\ pc = "pass1"
    /\ dataframe' = find_conflited_ranges(FALSE, has_erros, dataframe)
    /\ has_erros' = TRUE
    /\ ran' = ran \cup {"pass1"}
    /\ pc' = "get_unique_values"
    /\ UNCHANGED << real_columns_name, excel_data, all_columns, cep_interval,
                    complete_dataframe, todo, exc, marks, run, first_erros >>

\* ------------------------------------------------------ __get_unique_values
get_unique_values(df) == {<<df[i].CepInicio, df[i].CepFim>> : i \in DOMAIN df}

GetUniqueValues ==
    /\ pc = "get_unique_values"
    /\ cep_interval' = get_unique_values(dataframe)
    /\ complete_dataframe' = <<>>
    /\ pc' = "pass2"
    /\ UNCHANGED << real_columns_name, excel_data, dataframe, has_erros, all_columns,
                    todo, ran, exc, marks, run, first_erros >>

\* ---------------------------------------------- _check_values: Pass 2 loop
CutOverlapping(df, low_interval, high_interval) ==
    SelectSeq(df, LAMBDA row : row.CepInicio <= high_interval /\ row.CepFim >= low_interval)

\* self.dataframe.loc[(CepInicio == low_interval) & (CepFim == high_interval)]
Cut(df, low_interval, high_interval) ==
    SelectSeq(df, LAMBDA row : row.CepInicio = low_interval /\ row.CepFim = high_interval)

\* one iteration of the loop; list(set(...)) fixes no order of the groups
Pass2Group ==
    /\ pc = "pass2"
    /\ \E interval \in cep_interval :
          LET cutted_dataframe == Cut(dataframe, interval[1], interval[2])
          IN /\ complete_dataframe' =
                    complete_dataframe \o find_conflited_ranges(TRUE, TRUE, cutted_dataframe)
             /\ cep_interval' = cep_interval \ {interval}
    /\ ran' = ran \cup {"pass2"}
    /\ UNCHANGED << pc, real_columns_name, excel_data, dataframe, has_erros, all_columns,
                    todo, exc, marks, run, first_erros >>

RECURSIVE SortAscending(_)
SortAscending(df) ==
    IF Len(df) = 0 THEN <<>>
    ELSE LET k == CHOOSE i \in DOMAIN df : \A j \in DOMAIN df : df[i].idx <= df[j].idx
         IN << df[k] >> \o SortAscending(SubSeq(df, 1, k - 1) \o SubSeq(df, k + 1, Len(df)))

SortSkipped(df) == df

SortDescending(df) ==
    LET a == SortAscending(df) IN [i \in DOMAIN a |-> a[Len(a) + 1 - i]]

\* complete_dataframe.sort_index()
sort_index(df) == SortAscending(df)

SortIndex ==
    /\ pc = "pass2"
    /\ cep_interval = {}
    /\ dataframe' = sort_index(complete_dataframe)
    /\ pc' = "check_numbers_errors"
    /\ UNCHANGED << real_columns_name, excel_data, has_erros, all_columns, cep_interval,
                    complete_dataframe, todo, ran, exc, marks, run, first_erros >>

\* -------------------------------------------------- _check_numbers_errors
\* Styler.apply only records the function: it runs when the Styler is exported.
\* _check_values returns after this call, and its local complete_dataframe ends
CheckNumbersErrors ==
    /\ pc = "check_numbers_errors"
    /\ todo' = todo \cup {"format_wrong_dtype", "format_range"}
    /\ ran' = ran \cup {"check_numbers_errors"}
    /\ complete_dataframe' = <<>>
    /\ pc' = "check_columns_name"
    /\ UNCHANGED << real_columns_name, excel_data, dataframe, has_erros, all_columns,
                    cep_interval, exc, marks, run, first_erros >>

\* ---------------------------------------------------- _check_columns_name
CheckColumnsName ==
    /\ pc = "check_columns_name"
    /\ todo' = IF real_columns_name # columns_name THEN todo \cup {"highlight_headers"} ELSE todo
    /\ ran' = ran \cup {"check_columns_name"}
    /\ pc' = "to_excel"
    /\ UNCHANGED << real_columns_name, excel_data, dataframe, has_erros, all_columns,
                    cep_interval, complete_dataframe, exc, marks, run, first_erros >>

\* ------------------------------------------------ upload_file: the export
\* format_wrong_dtype: float(value.replace(',', '.')) if isinstance(value, str)
\* else float(value)
format_wrong_dtype(df) ==
    {<<df[i].idx, c>> : i \in DOMAIN df, c \in {"PesoInicio", "PesoFim"}}
        \cap {ic \in (0..Len(df)) \X {"PesoInicio", "PesoFim"} :
                \E i \in DOMAIN df :
                    /\ df[i].idx = ic[1]
                    /\ df[i][ic[2]].t = "str"
                    /\ ~FloatParses(StrReplace(df[i][ic[2]].s))}

\* format_range: row['Erros na Linha'] raises KeyError when there is no such column
FormatRangeRaises(hasColumn) == ~hasColumn

format_range(df) == {df[i].idx : i \in {j \in DOMAIN df : df[j].Erros # <<>>}}

\* highlight_headers() if x not in self.columns_name
highlight_headers(real) == {real[i] : i \in {j \in DOMAIN real : real[j] \notin Range(columns_name)}}

\* excel_data.to_excel(writer, index=False): the deferred functions run here, and
\* any exception becomes the 500 response
ToExcel ==
    /\ pc = "to_excel"
    /\ IF "format_range" \in todo /\ FormatRangeRaises(has_erros)
       THEN /\ exc' = "KeyError"
            /\ marks' = marks
       ELSE /\ exc' = exc
            /\ marks' =
                 [cells |-> IF "format_wrong_dtype" \in todo
                            THEN format_wrong_dtype(dataframe) ELSE {},
                  rows |-> IF "format_range" \in todo THEN format_range(dataframe) ELSE {},
                  headers |-> IF "highlight_headers" \in todo
                              THEN highlight_headers(real_columns_name) ELSE {}]
    /\ ran' = ran \cup {"to_excel"}
    /\ pc' = "response"
    /\ UNCHANGED << real_columns_name, excel_data, dataframe, has_erros, all_columns,
                    cep_interval, complete_dataframe, todo, run, first_erros >>

\* ------------------------------------------------------------- second run
\* the file sent back is uploaded again, without its 'Erros na Linha' column
Rerun ==
    /\ pc = "response"
    /\ exc = ""
    /\ run = 1
    /\ run' = 2
    /\ first_erros' = [has |-> has_erros, erros |-> [i \in DOMAIN dataframe |-> dataframe[i].Erros]]
    /\ excel_data' = [i \in DOMAIN dataframe |-> [dataframe[i] EXCEPT !.Erros = <<>>]]
    /\ dataframe' = excel_data'
    /\ has_erros' = FALSE
    /\ all_columns' = TRUE
    /\ cep_interval' = {}
    /\ complete_dataframe' = <<>>
    /\ todo' = {}
    /\ ran' = {}
    /\ marks' = [cells |-> {}, rows |-> {}, headers |-> {}]
    /\ pc' = "check_columns_quantity"
    /\ UNCHANGED << real_columns_name, exc >>

Next ==
    \/ CheckColumnsQuantity
    \/ CheckValues
    \/ CheckDataTypes
    \/ Pass1
    \/ GetUniqueValues
    \/ Pass2Group
    \/ SortIndex
    \/ CheckNumbersErrors
    \/ CheckColumnsName
    \/ ToExcel
    \/ Rerun

Spec == Init /\ [][Next]_vars


\* ========================================================= the properties
IsPrefix(a, b) == Len(a) <= Len(b) /\ SubSeq(b, 1, Len(a)) = a

Min(S) == CHOOSE m \in S : \A n \in S : m <= n

RECURSIVE Listed(_)
\* the index labels of S in ascending order, separated by ", "
Listed(S) ==
    IF S = {} THEN <<>>
    ELSE IF S = {Min(S)} THEN << ToString(Min(S)) >>
    ELSE << ToString(Min(S)), ", " >> \o Listed(S \ {Min(S)})

ExpectedMsg(prefix, S) == IF S = {} THEN <<>> ELSE << prefix >> \o Listed(S)

IdxSeq(df) == [i \in DOMAIN df |-> df[i].idx]

Count(tok, e) == Cardinality({k \in DOMAIN e : e[k] = tok})

\* the run reached the Range Conflict Detector and Pass 1 has just ended
AfterPass1 == pc = "get_unique_values"

\* the run reached the Range Conflict Detector and the reassembly has just ended
AfterPass2 == pc = "check_numbers_errors" /\ "pass2" \in ran

\* the rows O of the table as read with b > c and d > b, for the row R at position i
CepMatches(i) ==
    {excel_data[j].idx : j \in {k \in DOMAIN excel_data :
        /\ excel_data[i].CepFim > excel_data[k].CepInicio
        /\ excel_data[k].CepFim > excel_data[i].CepFim}}

\* C1: after Pass 1 every row R holds exactly one message "CEP: " with the
\* comma-joined indices of exactly the rows O with R.PostalEnd > O.PostalStart and
\* O.PostalEnd > R.PostalEnd, and holds nothing when there is no such row; R never
\* lists itself nor a row with the identical range.
C1_Pass1Message ==
    AfterPass1 =>
        /\ has_erros
        /\ IdxSeq(dataframe) = IdxSeq(excel_data)
        /\ \A i \in DOMAIN dataframe :
              /\ dataframe[i].Erros = ExpectedMsg("CEP: ", CepMatches(i))
              /\ \A j \in DOMAIN dataframe :
                    (/\ dataframe[j].CepInicio = dataframe[i].CepInicio
                     /\ dataframe[j].CepFim = dataframe[i].CepFim)
                    => ToString(dataframe[j].idx) \notin Range(dataframe[i].Erros)

\* a row flagged against two rows, next to two rows of identical range
C1_Witness ==
    /\ AfterPass1
    /\ \E i \in DOMAIN dataframe : Cardinality(CepMatches(i)) >= 2
    /\ \E i, j \in DOMAIN dataframe :
          /\ i # j
          /\ dataframe[i].CepInicio = dataframe[j].CepInicio
          /\ dataframe[i].CepFim = dataframe[j].CepFim
          /\ dataframe[i].Erros = <<>>

FloatGt(x, y) == x.t = "float" /\ y.t = "float" /\ x.v > y.v

SameGroup(r, o) == r.CepInicio = o.CepInicio /\ r.CepFim = o.CepFim

WeightMatch(r, o) == FloatGt(r.PesoFim, o.PesoInicio) /\ FloatGt(o.PesoFim, r.PesoFim)

\* the rows O of R's postal-code group whose weight range holds R's WeightEnd
PesoMatches(i) ==
    {dataframe[j].idx : j \in {k \in DOMAIN dataframe :
        SameGroup(dataframe[i], dataframe[k]) /\ WeightMatch(dataframe[i], dataframe[k])}}

\* the text of e from its first " + PESO: " on
PesoPart(e) ==
    IF \E k \in DOMAIN e : e[k] = " + PESO: "
    THEN SubSeq(e, Min({k \in DOMAIN e : e[k] = " + PESO: "}), Len(e))
    ELSE <<>>

\* C2: after Pass 2 the " + PESO: " message of every row R lists exactly the rows
\* O of the identical postal-code pair with R.WeightEnd > O.WeightStart and
\* O.WeightEnd > R.WeightEnd; there is no such message when there is no such row,
\* and a row of another postal-code group is never listed.
C2_Pass2Message ==
    AfterPass2 =>
        \A i \in DOMAIN dataframe :
            /\ PesoPart(dataframe[i].Erros) = ExpectedMsg(" + PESO: ", PesoMatches(i))
            /\ \A j \in DOMAIN dataframe :
                  ~SameGroup(dataframe[i], dataframe[j])
                  => ToString(dataframe[j].idx) \notin Range(PesoPart(dataframe[i].Erros))

\* a row flagged within its group while a row of an overlapping postal range, in
\* another group, has a weight range that holds its WeightEnd too
C2_Witness ==
    /\ AfterPass2
    /\ \E i, j, k \in DOMAIN dataframe :
          /\ SameGroup(dataframe[i], dataframe[j])
          /\ WeightMatch(dataframe[i], dataframe[j])
          /\ ~SameGroup(dataframe[i], dataframe[k])
          /\ WeightMatch(dataframe[i], dataframe[k])
          /\ dataframe[i].CepFim > dataframe[k].CepInicio
          /\ dataframe[k].CepFim > dataframe[i].CepFim
          /\ PesoPart(dataframe[i].Erros) = << " + PESO: ", ToString(dataframe[j].idx) >>

\* C3: after the partition / concatenate / sort cycle of Pass 2 the row index
\* sequence of the table equals that of the table as read: every row once, in
\* its original position.
C3_RowOrder ==
    AfterPass2 =>
        /\ IdxSeq(dataframe) = IdxSeq(excel_data)
        /\ \A i \in DOMAIN dataframe :
              /\ dataframe[i].CepInicio = excel_data[i].CepInicio
              /\ dataframe[i].CepFim = excel_data[i].CepFim

\* the groups were concatenated in another order than the rows were read in
C3_Witness ==
    /\ AfterPass2
    /\ Len(complete_dataframe) = Len(excel_data)
    /\ IdxSeq(complete_dataframe) # IdxSeq(excel_data)

\* the text 'Erros na Linha' holds for the row of index label k in self.dataframe
ErrosOf(k) ==
    IF has_erros /\ \E i \in DOMAIN dataframe : dataframe[i].idx = k
    THEN dataframe[CHOOSE i \in DOMAIN dataframe : dataframe[i].idx = k].Erros
    ELSE <<>>

\* a Pass 1 text: empty, or one "CEP: " message
IsCepText(e) ==
    /\ Count(" + PESO: ", e) = 0
    /\ \/ e = <<>>
       \/ Len(e) >= 2 /\ e[1] = "CEP: " /\ Count("CEP: ", e) = 1

\* a Pass 2 text: empty, or one " + PESO: " message
IsPesoText(e) ==
    /\ Count("CEP: ", e) = 0
    /\ \/ e = <<>>
       \/ Len(e) >= 2 /\ e[1] = " + PESO: " /\ Count(" + PESO: ", e) = 1

AppendOnlyStep ==
    run' = run =>
        /\ \A i \in DOMAIN dataframe' : IsPrefix(ErrosOf(dataframe'[i].idx), dataframe'[i].Erros)
        /\ \A i \in DOMAIN complete_dataframe' :
              IsPrefix(ErrosOf(complete_dataframe'[i].idx), complete_dataframe'[i].Erros)
        /\ (pc = "pass2" /\ pc' = "check_numbers_errors") =>
              \A i \in DOMAIN dataframe' :
                  /\ IsCepText(ErrosOf(dataframe'[i].idx))
                  /\ \E p \in {SubSeq(dataframe'[i].Erros, k, Len(dataframe'[i].Erros)) :
                                  k \in 1..(Len(dataframe'[i].Erros) + 1)} :
                        /\ IsPesoText(p)
                        /\ dataframe'[i].Erros = ErrosOf(dataframe'[i].idx) \o p

\* C4: 'Erros na Linha' is append-only during a validation pass: in every step of
\* the pipeline the text of each row has its previous text as a prefix, and the
\* text of the final table is the row's "CEP: " message of Pass 1 (if any)
\* immediately followed by its " + PESO: " message of Pass 2 (if any).
C4_AppendOnly == [][AppendOnlyStep]_vars

\* a row that holds a message of Pass 1 followed by a message of Pass 2
C4_Witness ==
    /\ AfterPass2
    /\ \E i \in DOMAIN dataframe :
          /\ Count("CEP: ", dataframe[i].Erros) = 1
          /\ Count(" + PESO: ", dataframe[i].Erros) = 1

\* the groups of the table, as a sequence in ascending order
RECURSIVE GroupsAscending(_)
GroupsAscending(G) ==
    IF G = {} THEN <<>>
    ELSE LET g == CHOOSE x \in G : \A y \in G : x[1] < y[1] \/ (x[1] = y[1] /\ x[2] <= y[2])
         IN << g >> \o GroupsAscending(G \ {g})

RECURSIVE ConcatGroups(_, _)
ConcatGroups(df, gs) ==
    IF gs = <<>> THEN <<>>
    ELSE find_conflited_ranges(TRUE, TRUE, Cut(df, gs[1][1], gs[1][2]))
            \o ConcatGroups(df, Tail(gs))

\* the concatenation Pass 2 builds when it visits the groups in ascending order
AscendingConcat ==
    LET pass1 == find_conflited_ranges(FALSE, FALSE, Coerce(excel_data))
    IN ConcatGroups(pass1, GroupsAscending(get_unique_values(pass1)))

\* C10: the final table (row sequence and the text of every row) is the same for
\* every order in which Pass 2 visits the distinct (PostalStart, PostalEnd) groups:
\* it is the table of the visit in ascending order.
C10_GroupOrder == AfterPass2 => dataframe = sort_index(AscendingConcat)

\* the groups were visited in another order than the ascending one, and a row
\* got a message from Pass 2
C10_Witness ==
    /\ AfterPass2
    /\ complete_dataframe # AscendingConcat
    /\ \E i \in DOMAIN dataframe : Count(" + PESO: ", dataframe[i].Erros) = 1

NineColumns == Len(real_columns_name) = Len(columns_name)

SixPresent == \A i \in DOMAIN columns : columns[i] \in Range(real_columns_name)

\* the weight cells of df that are no number, also with the decimal comma replaced
UnparseableCells(df) ==
    {ic \in (0..Len(df)) \X {"PesoInicio", "PesoFim"} :
        \E i \in DOMAIN df :
            /\ df[i].idx = ic[1]
            /\ df[i][ic[2]].t = "str"
            /\ ~FloatParses(StrReplace(df[i][ic[2]].s))}

\* the number a parseable weight cell stands for, in tenths
NumberOf(cell) == IF cell.t = "str" THEN FloatValue(StrReplace(cell.s)) ELSE cell.v

\* C5: for a table of 9 columns with a non-parseable WeightStart/WeightEnd cell
\* the Range Conflict Detector is skipped and 'Erros na Linha' stays unset, yet
\* the run is not aborted: the Numeric Format Flagger marks that cell and never
\* raises, so the annotated table is exported.
C5_DegradedExport ==
    (/\ pc = "response"
     /\ run = 1
     /\ NineColumns
     /\ SixPresent
     /\ UnparseableCells(excel_data) # {})
    => /\ "pass1" \notin ran
       /\ ~has_erros
       /\ exc = ""
       /\ UnparseableCells(excel_data) \subseteq marks.cells

\* the state right after the coercion loop of _check_values
AfterCoercion ==
    /\ ran = {"check_columns_quantity", "check_values"}
    /\ SixPresent

\* C6: for a table with the 6 range/value columns coercion fails (and the
\* detector is skipped) if and only if a WeightStart/WeightEnd cell is no number
\* after the replacement of the decimal comma; a table whose weight cells are all
\* parseable, text or numbers, reaches the detector with its weights unchanged.
C6_CoercionOutcome ==
    AfterCoercion =>
        /\ (pc = "check_numbers_errors") <=> (UnparseableCells(excel_data) # {})
        /\ UnparseableCells(excel_data) = {} =>
              \A i \in DOMAIN dataframe :
                  /\ dataframe[i].PesoInicio = Flt(NumberOf(excel_data[i].PesoInicio))
                  /\ dataframe[i].PesoFim = Flt(NumberOf(excel_data[i].PesoFim))

\* C7: the pipeline run again on the table it produced, without the column
\* 'Erros na Linha', produces the same 'Erros na Linha' for every row.
C7_Idempotent ==
    (run = 2 /\ pc = "response") =>
        /\ exc = ""
        /\ has_erros = first_erros.has
        /\ [i \in DOMAIN dataframe |-> dataframe[i].Erros] = first_erros.erros

\* C8: for a table whose column count is not 9 the Schema Checker raises before
\* any value-level stage: no coercion, no detector, no flagger runs, the table
\* is left as read and no 'Erros na Linha' is computed.
C8_SchemaError ==
    ~NineColumns =>
        /\ pc \in {"check_columns_quantity", "response"}
        /\ ran \subseteq {"check_columns_quantity"}
        /\ pc = "response" => exc = "IndexError"
        /\ dataframe = excel_data
        /\ ~has_erros
        /\ todo = {}
        /\ marks = [cells |-> {}, rows |-> {}, headers |-> {}]

\* a table with one column too many, refused
C8_Witness ==
    /\ Len(real_columns_name) > Len(columns_name)
    /\ pc = "response"
    /\ exc = "IndexError"

\* C9, as stated: in every run in which the Schema Checker fails the header-name
\* comparison is still executed.
C9_HeaderAfterSchemaError ==
    (~NineColumns /\ pc = "response") => "check_columns_name" \in ran

\* C9, amended: the header-name comparison is executed in every run of a table
\* of 9 columns that no type error aborts, the degraded runs included (a
\* range/value column missing by name, a failed coercion); in a run in which
\* the Schema Checker fails it is never executed.
C9_HeaderOnlyAfterSchemaPass ==
    /\ ~NineColumns => "check_columns_name" \notin ran
    /\ (NineColumns /\ pc = "response" /\ exc # "TypeError") => "check_columns_name" \in ran

\* a degraded run, a range/value column missing by name, that marked a header
C9_Witness ==
    /\ pc = "response"
    /\ NineColumns
    /\ ~all_columns
    /\ "check_columns_name" \in ran
    /\ marks.headers # {}

=============================================================================
